---- MODULE Spec2Model ----
(***************************************************************************)
(* SpotImages (spot_wrapper/spot_images.py): the image request catalog    *)
(* built by the constructor, and the accessors that forward requests to   *)
(* the image client and reshape its responses.                            *)
(*                                                                         *)
(* Every accessor is one synchronous call.  A call is one action: it runs *)
(* the accessor's whole body, the image client's get_image included, and  *)
(* leaves the call's frame (argument, get_image calls, error log entries, *)
(* result) in the state.  Return ends the frame; the object itself holds  *)
(* nothing of a finished call.                                            *)
(***************************************************************************)
EXTENDS Integers, Sequences, FiniteSets

\* ---------------------------------------------------------------- bounds
\* Longest selector list handed to get_images_by_cameras.
MaxSelectors == 2
\* Longest explicit image_types list of one selector.
MaxTypes == 2

\* ------------------------------------------------------ module constants
CAMERA_IMAGE_SOURCES ==
    << "frontleft_fisheye_image", "frontright_fisheye_image",
       "left_fisheye_image", "right_fisheye_image", "back_fisheye_image" >>

DEPTH_IMAGE_SOURCES ==
    << "frontleft_depth", "frontright_depth", "left_depth", "right_depth",
       "back_depth" >>

DEPTH_REGISTERED_IMAGE_SOURCES ==
    << "frontleft_depth_in_visual_frame", "frontright_depth_in_visual_frame",
       "right_depth_in_visual_frame", "left_depth_in_visual_frame",
       "back_depth_in_visual_frame" >>

\* Field names of the two namedtuples, in declaration order.
ImageBundle == << "frontleft", "frontright", "left", "right", "back" >>

ImageWithHandBundle ==
    << "frontleft", "frontright", "left", "right", "back", "hand" >>

IMAGE_SOURCES_BY_CAMERA ==
    [ frontleft  |-> [ visual |-> "frontleft_fisheye_image",
                       depth |-> "frontleft_depth",
                       depth_registered |-> "frontleft_depth_in_visual_frame" ],
      frontright |-> [ visual |-> "frontright_fisheye_image",
                       depth |-> "frontright_depth",
                       depth_registered |-> "frontright_depth_in_visual_frame" ],
      left       |-> [ visual |-> "left_fisheye_image",
                       depth |-> "left_depth",
                       depth_registered |-> "left_depth_in_visual_frame" ],
      right      |-> [ visual |-> "right_fisheye_image",
                       depth |-> "right_depth",
                       depth_registered |-> "right_depth_in_visual_frame" ],
      back       |-> [ visual |-> "back_fisheye_image",
                       depth |-> "back_depth",
                       depth_registered |-> "back_depth_in_visual_frame" ],
      hand       |-> [ visual |-> "hand_color_image",
                       depth |-> "hand_depth",
                       depth_registered |-> "hand_depth_in_hand_color_frame" ] ]

\* Iteration order of the dict literal IMAGE_SOURCES_BY_CAMERA (insertion order).
CameraOrder == << "frontleft", "frontright", "left", "right", "back", "hand" >>

\* Iteration order of each row of IMAGE_SOURCES_BY_CAMERA (insertion order).
RowOrder == << "visual", "depth", "depth_registered" >>

\* A set of strings: its iteration order is no part of its value.
IMAGE_TYPES == { "visual", "depth", "depth_registered" }

\* quality_percent of the hand requests and of the lookup-table requests.
HandQuality == 50
TableQuality == 75

\* ------------------------------------------------------- value encodings
\* Optional values: None is the empty sequence, a present value x is <<x>>.
None == << >>
Some(x) == << x >>

\* build_image_request(source, image_format=, pixel_format=, quality_percent=):
\* the descriptor records the arguments as passed.  A format that is not
\* passed is "unset"; quality_percent is Some(q) when passed, None when not.
build_image_request(source, image_format, pixel_format, quality_percent) ==
    [ source |-> source, image_format |-> image_format,
      pixel_format |-> pixel_format, quality_percent |-> quality_percent ]

Range(s) == { s[i] : i \in 1..Len(s) }

\* --------------------------------------------------------------- state
VARIABLES
    has_arm,                          \* what self._robot.has_arm() answers
    rgb_cameras,                      \* self._rgb_cameras
    image_types_order,                \* the order in which IMAGE_TYPES iterates
    camera_image_requests,            \* self._camera_image_requests
    depth_image_requests,             \* self._depth_image_requests
    depth_registered_image_requests,  \* self._depth_registered_image_requests
    image_requests_by_camera,         \* self._image_requests_by_camera
    logger_info,                      \* self._logger.info entries (constructor)
    pc,                               \* "idle", or "returned" after a call
    op,                               \* the accessor of the current frame
    camera_sources,                   \* argument of get_images_by_cameras
    client_calls,                     \* get_image calls made by the frame
    logger_error,                     \* self._logger.error entries of the frame
    result                            \* what the accessor returns

catalog == << camera_image_requests, depth_image_requests,
              depth_registered_image_requests, image_requests_by_camera >>

robot == << has_arm, rgb_cameras, image_types_order, logger_info >>

frame == << op, camera_sources, client_calls, logger_error, result >>

vars == << robot, catalog, pc, frame >>

\* ------------------------------------------------------------ __init__
\* CatalogRequests with the arm check lost: the hand request always appended.
CatalogRequests_AlwaysHand(sources, hand_request, arm) ==
    [ i \in 1..Len(sources) |->
        build_image_request(sources[i], "FORMAT_RAW", "unset", None) ]
    \o << hand_request >>

\* One of the three catalog lists: a raw request per body source, then the
\* hand request when the robot has an arm.
CatalogRequests(sources, hand_request, arm) ==
    [ i \in 1..Len(sources) |->
        build_image_request(sources[i], "FORMAT_RAW", "unset", None) ]
    \o (IF arm THEN << hand_request >> ELSE << >>)

\* image_type.startswith("depth"), on the keys of the table rows.
StartsWithDepth(image_type) == image_type \in { "depth", "depth_registered" }

\* The branch of the table loop that logs the switch to greyscale.
SwitchesToGreyscale(camera, image_type, rgb) ==
    /\ ~StartsWithDepth(image_type)
    /\ ~(camera = "hand" \/ rgb)
    /\ camera # "hand"

\* TablePixelFormat without the hand camera's exemption from greyscale.
TablePixelFormat_HandFollowsPreference(camera, image_type, rgb) ==
    IF StartsWithDepth(image_type) THEN "PIXEL_FORMAT_DEPTH_U16"
    ELSE IF rgb THEN "PIXEL_FORMAT_RGB_U8"
    ELSE "PIXEL_FORMAT_GREYSCALE_U8"

\* pixel_format chosen by the table loop.
TablePixelFormat(camera, image_type, rgb) ==
    IF StartsWithDepth(image_type) THEN "PIXEL_FORMAT_DEPTH_U16"
    ELSE IF camera = "hand" \/ rgb THEN "PIXEL_FORMAT_RGB_U8"
    ELSE "PIXEL_FORMAT_GREYSCALE_U8"

\* image_format chosen by the table loop.
TableImageFormat(image_type) ==
    IF StartsWithDepth(image_type) THEN "FORMAT_RAW" ELSE "FORMAT_JPEG"

\* The cameras the table loop does not skip.
TableCameras(arm) ==
    { c \in Range(CameraOrder) : ~(c = "hand" /\ ~arm) }

RequestsByCamera(arm, rgb) ==
    [ camera \in TableCameras(arm) |->
        [ image_type \in DOMAIN IMAGE_SOURCES_BY_CAMERA[camera] |->
            build_image_request(IMAGE_SOURCES_BY_CAMERA[camera][image_type],
                                TableImageFormat(image_type),
                                TablePixelFormat(camera, image_type, rgb),
                                Some(TableQuality)) ] ]

\* The (camera, image_type) pairs in the order the table loop visits them.
TableVisits(arm) ==
    SelectSeq([ k \in 1..(Len(CameraOrder) * Len(RowOrder)) |->
                  << CameraOrder[((k - 1) \div Len(RowOrder)) + 1],
                     RowOrder[((k - 1) % Len(RowOrder)) + 1] >> ],
              LAMBDA p : p[1] \in TableCameras(arm))

\* The info entries the table loop emits, in order.
GreyscaleLog(arm, rgb) ==
    SelectSeq(TableVisits(arm),
              LAMBDA p : SwitchesToGreyscale(p[1], p[2], rgb))

NoResult == [ kind |-> "None" ]

Init ==
    /\ has_arm \in BOOLEAN
    /\ rgb_cameras \in BOOLEAN
    /\ image_types_order \in
          { s \in [1..Cardinality(IMAGE_TYPES) -> IMAGE_TYPES] :
              Range(s) = IMAGE_TYPES }
    /\ camera_image_requests =
          CatalogRequests(CAMERA_IMAGE_SOURCES,
              build_image_request("hand_color_image", "FORMAT_JPEG",
                                  "PIXEL_FORMAT_RGB_U8", Some(HandQuality)),
              has_arm)
    /\ depth_image_requests =
          CatalogRequests(DEPTH_IMAGE_SOURCES,
              build_image_request("hand_depth", "unset",
                                  "PIXEL_FORMAT_DEPTH_U16", None),
              has_arm)
    /\ depth_registered_image_requests =
          CatalogRequests(DEPTH_REGISTERED_IMAGE_SOURCES,
              build_image_request("hand_depth_in_hand_color_frame", "unset",
                                  "PIXEL_FORMAT_DEPTH_U16", None),
              has_arm)
    /\ image_requests_by_camera = RequestsByCamera(has_arm, rgb_cameras)
    /\ logger_info = GreyscaleLog(has_arm, rgb_cameras)
    /\ pc = "idle"
    /\ op = "none"
    /\ camera_sources = << >>
    /\ client_calls = << >>
    /\ logger_error = << >>
    /\ result = NoResult

\* ------------------------------------------------------ the image client
\* How the image client may end a get_image call.
Behaviours == { "responds", "UnsupportedPixelFormatRequestedError" }

\* self._image_client.get_image(image_requests): the client answers with one
\* response per request, in request order, or raises.  A response is opaque
\* to the accessors; it is the image of the source its request names, taken
\* as the shot-th image of the reply.
get_image(image_requests, behaviour) ==
    [ image_requests |-> image_requests,
      raised |-> behaviour # "responds",
      image_responses |->
          IF behaviour = "responds"
          THEN [ i \in 1..Len(image_requests) |->
                   [ source |-> image_requests[i].source, shot |-> i ] ]
          ELSE << >> ]

\* ---------------------------------------------- single-image accessors
\* try: return get_image([request])[0]
\* except UnsupportedPixelFormatRequestedError: (log the error;) return None
SingleImage(name, request, behaviour, logs_error) ==
    LET call == get_image(<< request >>, behaviour) IN
    /\ pc = "idle"
    /\ pc' = "returned"
    /\ op' = name
    /\ camera_sources' = << >>
    /\ client_calls' = << call >>
    /\ logger_error' =
          IF call.raised /\ logs_error THEN << behaviour >> ELSE << >>
    /\ result' =
          IF call.raised THEN NoResult
          ELSE [ kind |-> "ImageResponse",
                 image_response |-> call.image_responses[1] ]
    /\ UNCHANGED << robot, catalog >>

RawRequest(source) == build_image_request(source, "FORMAT_RAW", "unset", None)

get_frontleft_rgb_image(behaviour) ==
    SingleImage("get_frontleft_rgb_image",
                RawRequest("frontleft_fisheye_image"), behaviour, TRUE)

get_frontright_rgb_image(behaviour) ==
    SingleImage("get_frontright_rgb_image",
                RawRequest("frontright_fisheye_image"), behaviour, TRUE)

get_left_rgb_image(behaviour) ==
    SingleImage("get_left_rgb_image",
                RawRequest("left_fisheye_image"), behaviour, TRUE)

get_right_rgb_image(behaviour) ==
    SingleImage("get_right_rgb_image",
                RawRequest("right_fisheye_image"), behaviour, TRUE)

get_back_rgb_image(behaviour) ==
    SingleImage("get_back_rgb_image",
                RawRequest("back_fisheye_image"), behaviour, TRUE)

\* get_hand_rgb_image without the has_arm check.
get_hand_rgb_image_Unguarded(behaviour) ==
    SingleImage("get_hand_rgb_image",
                build_image_request("hand_color_image", "unset",
                                    "PIXEL_FORMAT_RGB_U8", Some(HandQuality)),
                behaviour, FALSE)

\* The hand accessor answers None at once without an arm; its except branch
\* returns None without a log entry.
get_hand_rgb_image(behaviour) ==
    IF ~has_arm
    THEN /\ pc = "idle"
         /\ pc' = "returned"
         /\ op' = "get_hand_rgb_image"
         /\ camera_sources' = << >>
         /\ client_calls' = << >>
         /\ logger_error' = << >>
         /\ result' = NoResult
         /\ UNCHANGED << robot, catalog >>
    ELSE SingleImage("get_hand_rgb_image",
                     build_image_request("hand_color_image", "unset",
                                         "PIXEL_FORMAT_RGB_U8",
                                         Some(HandQuality)),
                     behaviour, FALSE)

\* ----------------------------------------------------- bundled fetches
\* Bundle with the left and right slots filled from each other's response.
Bundle_LeftRightSwapped(image_responses, arm) ==
    IF arm
    THEN [ kind |-> "ImageWithHandBundle",
           slots |-> [ frontleft  |-> image_responses[1],
                       frontright |-> image_responses[2],
                       left       |-> image_responses[4],
                       right      |-> image_responses[3],
                       back       |-> image_responses[5],
                       hand       |-> image_responses[6] ] ]
    ELSE [ kind |-> "ImageBundle",
           slots |-> [ frontleft  |-> image_responses[1],
                       frontright |-> image_responses[2],
                       left       |-> image_responses[4],
                       right      |-> image_responses[3],
                       back       |-> image_responses[5] ] ]

\* The namedtuple get_images builds from the response list.
Bundle(image_responses, arm) ==
    IF arm
    THEN [ kind |-> "ImageWithHandBundle",
           slots |-> [ frontleft  |-> image_responses[1],
                       frontright |-> image_responses[2],
                       left       |-> image_responses[3],
                       right      |-> image_responses[4],
                       back       |-> image_responses[5],
                       hand       |-> image_responses[6] ] ]
    ELSE [ kind |-> "ImageBundle",
           slots |-> [ frontleft  |-> image_responses[1],
                       frontright |-> image_responses[2],
                       left       |-> image_responses[3],
                       right      |-> image_responses[4],
                       back       |-> image_responses[5] ] ]

get_images(name, image_requests, behaviour) ==
    LET call == get_image(image_requests, behaviour) IN
    /\ pc = "idle"
    /\ pc' = "returned"
    /\ op' = name
    /\ camera_sources' = << >>
    /\ client_calls' = << call >>
    /\ logger_error' = IF call.raised THEN << behaviour >> ELSE << >>
    /\ result' =
          IF call.raised THEN NoResult
          ELSE Bundle(call.image_responses, has_arm)
    /\ UNCHANGED << robot, catalog >>

get_camera_images(behaviour) ==
    get_images("get_camera_images", camera_image_requests, behaviour)

get_depth_images(behaviour) ==
    get_images("get_depth_images", depth_image_requests, behaviour)

get_depth_registered_images(behaviour) ==
    get_images("get_depth_registered_images",
               depth_registered_image_requests, behaviour)

\* ------------------------------------------------------ selective fetch
\* The camera names and image type names a caller may write: the table's
\* own, and one of each that the table does not know.
CameraNames == DOMAIN IMAGE_SOURCES_BY_CAMERA \cup { "nocam" }
TypeNames == IMAGE_TYPES \cup { "thermal" }

TypeLists == UNION { [1..n -> TypeNames] : n \in 0..MaxTypes }

\* CameraSource(camera_name, image_types), image_types optional.
CameraSource ==
    [ camera_name : CameraNames,
      image_types : { None } \cup { Some(t) : t \in TypeLists } ]

CameraSourceLists == UNION { [1..n -> CameraSource] : n \in 0..MaxSelectors }

\* The locals of get_images_by_cameras before its first loop.
NoRequests ==
    [ image_requests |-> << >>, source_types |-> << >>,
      cameras_specified |-> { }, logger_error |-> << >>, returned |-> FALSE ]

\* Duplicated with the membership test lost.
Duplicated_Never(camera_name, cameras_specified) == FALSE

\* item.camera_name in cameras_specified
Duplicated(camera_name, cameras_specified) ==
    camera_name \in cameras_specified

\* self._image_requests_by_camera[camera_name][image_type] raises KeyError
RaisesKeyError(camera_name, image_type) ==
    \/ camera_name \notin DOMAIN image_requests_by_camera
    \/ image_type \notin DOMAIN image_requests_by_camera[camera_name]

\* The image types the inner loop iterates over, in iteration order.
IterTypes(item) ==
    IF item.image_types = None THEN image_types_order
    ELSE item.image_types[1]

\* for image_type in image_types: from the j-th type on.
RECURSIVE ForImageType(_, _, _, _)
ForImageType(camera_name, image_types, j, locals) ==
    IF j > Len(image_types) THEN locals
    ELSE IF RaisesKeyError(camera_name, image_types[j])
    THEN [ locals EXCEPT
             !.logger_error = Append(@, "Unexpected camera name or image type"),
             !.returned = TRUE ]
    ELSE ForImageType(camera_name, image_types, j + 1,
             [ locals EXCEPT
                 !.image_requests =
                     Append(@, image_requests_by_camera[camera_name]
                                                       [image_types[j]]),
                 !.source_types =
                     Append(@, << camera_name, image_types[j] >>) ])

\* for item in camera_sources: from the i-th selector on.
RECURSIVE ForItem(_, _, _)
ForItem(sources, i, locals) ==
    IF i > Len(sources) THEN locals
    ELSE IF Duplicated(sources[i].camera_name, locals.cameras_specified)
    THEN [ locals EXCEPT
             !.logger_error = Append(@, "Duplicated camera source"),
             !.returned = TRUE ]
    ELSE LET inner == ForImageType(sources[i].camera_name,
                                   IterTypes(sources[i]), 1, locals)
         IN  IF inner.returned THEN inner
             ELSE ForItem(sources, i + 1,
                      [ inner EXCEPT !.cameras_specified =
                                         @ \cup { sources[i].camera_name } ])

\* ImageEntries with the responses taken from the end of the reply.
ImageEntries_Reversed(source_types, image_responses) ==
    [ i \in 1..Len(source_types) |->
        [ camera_name |-> source_types[i][1],
          image_type |-> source_types[i][2],
          image_response |->
              image_responses[Len(source_types) + 1 - i] ] ]

\* The result list: the i-th entry tags the i-th response.
ImageEntries(source_types, image_responses) ==
    [ i \in 1..Len(source_types) |->
        [ camera_name |-> source_types[i][1],
          image_type |-> source_types[i][2],
          image_response |-> image_responses[i] ] ]

get_images_by_cameras(sources, behaviour) ==
    LET built == ForItem(sources, 1, NoRequests)
        call == get_image(built.image_requests, behaviour)
    IN
    /\ pc = "idle"
    /\ pc' = "returned"
    /\ op' = "get_images_by_cameras"
    /\ camera_sources' = sources
    /\ IF built.returned
       THEN /\ client_calls' = << >>
            /\ logger_error' = built.logger_error
            /\ result' = NoResult
       ELSE /\ client_calls' = << call >>
            /\ logger_error' =
                  IF call.raised THEN << behaviour >> ELSE << >>
            /\ result' =
                  IF call.raised THEN NoResult
                  ELSE [ kind |-> "list",
                         entries |-> ImageEntries(built.source_types,
                                                  call.image_responses) ]
    /\ UNCHANGED << robot, catalog >>

\* ------------------------------------------------------------ the caller
\* The accessor has returned: the caller takes the result and the frame is
\* gone.  The object is ready for the next call.
Return ==
    /\ pc = "returned"
    /\ pc' = "idle"
    /\ op' = "none"
    /\ camera_sources' = << >>
    /\ client_calls' = << >>
    /\ logger_error' = << >>
    /\ result' = NoResult
    /\ UNCHANGED << robot, catalog >>

Next ==
    \/ \E b \in Behaviours : get_frontleft_rgb_image(b)
    \/ \E b \in Behaviours : get_frontright_rgb_image(b)
    \/ \E b \in Behaviours : get_left_rgb_image(b)
    \/ \E b \in Behaviours : get_right_rgb_image(b)
    \/ \E b \in Behaviours : get_back_rgb_image(b)
    \/ \E b \in Behaviours : get_hand_rgb_image(b)
    \/ \E b \in Behaviours : get_camera_images(b)
    \/ \E b \in Behaviours : get_depth_images(b)
    \/ \E b \in Behaviours : get_depth_registered_images(b)
    \/ /\ pc = "idle"
       /\ \E sources \in CameraSourceLists, b \in Behaviours :
             get_images_by_cameras(sources, b)
    \/ Return

Spec == Init /\ [][Next]_vars

\* ================================================================ claims
\* What the frame of a finished call shows.
Returned(name) == pc = "returned" /\ op = name

\* The call ended with None, an error entry and no get_image call.
Rejected ==
    /\ result.kind = "None"
    /\ Len(logger_error) >= 1
    /\ client_calls = << >>

Dispatched == Len(client_calls) = 1

Responded == Dispatched /\ ~client_calls[1].raised

\* Two selectors of the list name the same camera.
NamesCameraTwice(sources) ==
    \E i, j \in 1..Len(sources) :
        i < j /\ sources[i].camera_name = sources[j].camera_name

\* The (camera, image type) pair is a key of the lookup table.
InTable(camera_name, image_type) ==
    /\ camera_name \in DOMAIN image_requests_by_camera
    /\ image_type \in DOMAIN image_requests_by_camera[camera_name]

AllExplicit(sources) ==
    \A i \in 1..Len(sources) : sources[i].image_types # None

\* The pairs a selector list asks for, in the order written; a selector
\* without image types stands for the types in the order `all_types`.
RECURSIVE PairsWritten(_, _)
PairsWritten(sources, all_types) ==
    IF sources = << >> THEN << >>
    ELSE LET item == Head(sources)
             types == IF item.image_types = None THEN all_types
                      ELSE item.image_types[1]
         IN  [ j \in 1..Len(types) |-> << item.camera_name, types[j] >> ]
             \o PairsWritten(Tail(sources), all_types)

PassesValidation(sources) ==
    /\ ~NamesCameraTwice(sources)
    /\ \A p \in Range(PairsWritten(sources, RowOrder)) : InTable(p[1], p[2])

TableRequests(pairs) ==
    [ i \in 1..Len(pairs) |-> image_requests_by_camera[pairs[i][1]][pairs[i][2]] ]

\* C1: a selective fetch whose selectors all give explicit image types and
\* pass validation sends exactly one batch, the table's requests for the
\* pairs in the order written, and when the client responds the result is a
\* list of the same length whose i-th entry carries the i-th pair's camera,
\* the i-th pair's image type and the client's i-th response.
C1_SelectiveOrderAndTagging ==
    ( /\ Returned("get_images_by_cameras")
      /\ AllExplicit(camera_sources)
      /\ PassesValidation(camera_sources) )
    => LET pairs == PairsWritten(camera_sources, RowOrder) IN
       /\ Dispatched
       /\ client_calls[1].image_requests = TableRequests(pairs)
       /\ Responded =>
            /\ result.kind = "list"
            /\ Len(result.entries) = Len(pairs)
            /\ \A i \in 1..Len(pairs) :
                 result.entries[i] =
                     [ camera_name |-> pairs[i][1],
                       image_type |-> pairs[i][2],
                       image_response |-> client_calls[1].image_responses[i] ]

\* Two cameras, one image type for the first and two for the second.
C1_Witness ==
    /\ Returned("get_images_by_cameras")
    /\ Responded
    /\ Len(camera_sources) = 2
    /\ camera_sources[1] =
          [ camera_name |-> "frontleft", image_types |-> Some(<< "visual" >>) ]
    /\ camera_sources[2] =
          [ camera_name |-> "back",
            image_types |-> Some(<< "depth", "depth_registered" >>) ]
    /\ result.kind = "list"
    /\ Len(result.entries) = 3

\* C2: a selective fetch whose list names some camera in two or more
\* selectors returns None, logs an error and never calls the image client.
C2_DuplicateCameraRejected ==
    ( Returned("get_images_by_cameras") /\ NamesCameraTwice(camera_sources) )
    => Rejected

\* The same table camera twice, each time with image types of its row.
C2_Witness ==
    /\ Returned("get_images_by_cameras")
    /\ Len(camera_sources) = 2
    /\ camera_sources[1].camera_name = "frontleft"
    /\ camera_sources[2].camera_name = "frontleft"
    /\ camera_sources[1].image_types = Some(<< "visual" >>)
    /\ camera_sources[2].image_types = Some(<< "depth" >>)
    /\ logger_error = << "Duplicated camera source" >>
    /\ Rejected

\* C3: a selective fetch some selector of which names a camera that is not
\* in the lookup table, or an image type that is not in its camera's row,
\* returns None, logs an error and never calls the image client -- whether
\* the selector's image types are omitted, empty or non-empty.
C3_UnknownCameraOrTypeRejected ==
    ( /\ Returned("get_images_by_cameras")
      /\ \E i \in 1..Len(camera_sources) :
            \/ camera_sources[i].camera_name
                   \notin DOMAIN image_requests_by_camera
            \/ /\ camera_sources[i].image_types # None
               /\ \E t \in Range(camera_sources[i].image_types[1]) :
                     ~InTable(camera_sources[i].camera_name, t) )
    => Rejected

\* C4: a selector without image types is expanded to visual, depth,
\* depth_registered in that order, so the batch a selective fetch sends is
\* the table's requests for the pairs written, with that expansion.
C4_OmittedTypesInTableOrder ==
    ( Returned("get_images_by_cameras") /\ Dispatched )
    => client_calls[1].image_requests =
           TableRequests(PairsWritten(camera_sources, RowOrder))

BundledFetches ==
    { "get_camera_images", "get_depth_images", "get_depth_registered_images" }

SlotNames == IF has_arm THEN ImageWithHandBundle ELSE ImageBundle

\* C5: a bundled fetch the client responds to returns five named slots
\* (frontleft, frontright, left, right, back) without an arm and those five
\* plus hand with one, and the k-th slot holds the client's k-th response.
C5_BundleSlotsInResponseOrder ==
    ( pc = "returned" /\ op \in BundledFetches /\ Responded )
    => /\ result.kind \in { "ImageBundle", "ImageWithHandBundle" }
       /\ Len(SlotNames) = IF has_arm THEN 6 ELSE 5
       /\ DOMAIN result.slots = Range(SlotNames)
       /\ Len(client_calls[1].image_responses) = Len(SlotNames)
       /\ \A k \in 1..Len(SlotNames) :
            result.slots[SlotNames[k]] = client_calls[1].image_responses[k]

\* A bundle with a hand slot that holds the sixth response.
C5_Witness ==
    /\ Returned("get_depth_images")
    /\ has_arm
    /\ Responded
    /\ result.kind = "ImageWithHandBundle"
    /\ result.slots["hand"].shot = 6
    /\ result.slots["back"].shot = 5

SingleAccessors ==
    { "get_frontleft_rgb_image", "get_frontright_rgb_image",
      "get_left_rgb_image", "get_right_rgb_image", "get_back_rgb_image",
      "get_hand_rgb_image" }

\* C6: whichever accessor reaches the image client, when the client raises
\* the unsupported-pixel-format error the accessor logs it at error level,
\* returns None and makes no second call; and a single-image accessor the
\* client responds to returns exactly that response.
C6_UnsupportedPixelFormatPolicy ==
    /\ ( pc = "returned" /\ Len(client_calls) >= 1 /\ client_calls[1].raised )
       => /\ Len(logger_error) >= 1
          /\ result.kind = "None"
          /\ Len(client_calls) = 1
    /\ ( pc = "returned" /\ op \in SingleAccessors /\ Responded )
       => /\ result.kind = "ImageResponse"
          /\ result.image_response = client_calls[1].image_responses[1]

\* C7: without an arm, get_hand_rgb_image returns None and does not call
\* the image client.
C7_HandWithoutArm ==
    ( Returned("get_hand_rgb_image") /\ ~has_arm )
    => /\ result.kind = "None"
       /\ client_calls = << >>

C7_Witness ==
    /\ Returned("get_hand_rgb_image")
    /\ ~has_arm
    /\ result.kind = "None"

\* The three catalog lists, each with the image type it serves.
CatalogLists ==
    << << "visual", camera_image_requests >>,
       << "depth", depth_image_requests >>,
       << "depth_registered", depth_registered_image_requests >> >>

HandSources ==
    { IMAGE_SOURCES_BY_CAMERA["hand"][t] : t \in IMAGE_TYPES }

\* Each catalog list has six requests, the last one the hand request of its
\* image type, with an arm, and five requests, none a hand request,
\* without; the lookup table has a hand row exactly with an arm.
CatalogShape ==
    /\ \A n \in 1..Len(CatalogLists) :
         LET image_type == CatalogLists[n][1]
             requests == CatalogLists[n][2]
         IN  IF has_arm
             THEN /\ Len(requests) = 6
                  /\ requests[6].source =
                         IMAGE_SOURCES_BY_CAMERA["hand"][image_type]
                  /\ \A k \in 1..5 : requests[k].source \notin HandSources
             ELSE /\ Len(requests) = 5
                  /\ \A k \in 1..5 : requests[k].source \notin HandSources
    /\ ("hand" \in DOMAIN image_requests_by_camera) <=> has_arm

\* C8: in every state after construction the catalog lists and the lookup
\* table have the shape the arm flag gives them, and no accessor call, nor
\* the return from one, changes any of them.
C8_CatalogInvariant ==
    /\ []CatalogShape
    /\ [][catalog' = catalog]_vars

\* After a bundled fetch that the client failed, with an arm.
C8_Witness ==
    /\ has_arm
    /\ Returned("get_depth_registered_images")
    /\ Dispatched
    /\ client_calls[1].raised
    /\ Len(depth_registered_image_requests) = 6
    /\ "hand" \in DOMAIN image_requests_by_camera

BodyCameras == Range(ImageBundle)

\* The number of info entries that name the camera.
InfoEntriesFor(camera) ==
    Cardinality({ n \in 1..Len(logger_info) : logger_info[n][1] = camera })

\* C9: in the lookup table a visual request is full colour when its camera
\* is the hand camera or the colour preference is on and greyscale
\* otherwise, every depth and depth_registered request is 16-bit depth, and
\* the constructor logs one info entry per body camera forced to greyscale
\* (five with the preference off, none with it on), none for the hand
\* camera and none for a depth image type.
C9_GreyscaleSubstitution ==
    /\ \A camera \in DOMAIN image_requests_by_camera :
         /\ image_requests_by_camera[camera]["visual"].pixel_format =
                IF camera = "hand" \/ rgb_cameras
                THEN "PIXEL_FORMAT_RGB_U8"
                ELSE "PIXEL_FORMAT_GREYSCALE_U8"
         /\ image_requests_by_camera[camera]["depth"].pixel_format =
                "PIXEL_FORMAT_DEPTH_U16"
         /\ image_requests_by_camera[camera]["depth_registered"].pixel_format =
                "PIXEL_FORMAT_DEPTH_U16"
    /\ \A camera \in BodyCameras :
         InfoEntriesFor(camera) = IF rgb_cameras THEN 0 ELSE 1
    /\ Len(logger_info) = IF rgb_cameras THEN 0 ELSE 5
    /\ \A n \in 1..Len(logger_info) :
         logger_info[n][1] # "hand" /\ logger_info[n][2] = "visual"

\* Greyscale body cameras next to a full-colour hand camera.
C9_Witness ==
    /\ ~rgb_cameras
    /\ has_arm
    /\ image_requests_by_camera["back"]["visual"].pixel_format =
           "PIXEL_FORMAT_GREYSCALE_U8"
    /\ image_requests_by_camera["hand"]["visual"].pixel_format =
           "PIXEL_FORMAT_RGB_U8"
    /\ Len(logger_info) = 5

\* C10: the request at position k of each catalog list names the source
\* that IMAGE_SOURCES_BY_CAMERA gives the k-th slot's camera for the list's
\* image type; so every slot of a bundle holds an image of the camera the
\* slot is named after.
C10_SlotCameraAgreement ==
    /\ \A n \in 1..Len(CatalogLists) :
         \A k \in 1..Len(CatalogLists[n][2]) :
            CatalogLists[n][2][k].source =
                IMAGE_SOURCES_BY_CAMERA[SlotNames[k]][CatalogLists[n][1]]
    /\ \A n \in 1..Len(CatalogLists) :
         ( /\ pc = "returned"
           /\ op \in BundledFetches
           /\ Responded
           /\ client_calls[1].image_requests = CatalogLists[n][2] )
         => \A slot \in DOMAIN result.slots :
              result.slots[slot].source =
                  IMAGE_SOURCES_BY_CAMERA[slot][CatalogLists[n][1]]

====
